---------------------------- MODULE Spec2Model ----------------------------
(***************************************************************************)
(* cached_proc_macro: the #[cached] attribute macro of                     *)
(* src/cached_proc_macro/src/lib.rs.                                       *)
(*                                                                         *)
(* Two layers are modelled:                                                *)
(*  - the macro itself (lib.rs 29-166): a pure function of MacroArgs that  *)
(*    resolves the key block, the cache type and the set-cache block, or   *)
(*    panics;                                                              *)
(*  - the code it expands to (lib.rs 140-163): a static                    *)
(*    Lazy<Mutex<cache_ty>> and the wrapper body, run by several threads,  *)
(*    one step per statement; the body of the annotated function may call  *)
(*    cached functions itself.                                             *)
(* Option<T> values are sequences: <<>> is None, <<v>> is Some(v).         *)
(***************************************************************************)
EXTENDS Integers, Sequences, FiniteSets, TLC

\* ------------------------------------------------------------------ bounds
\* threads that may call the generated function concurrently
NumThreads == 2
\* calls made in all: by concurrent callers, by a single caller, and by the
\* single caller of the run over every attribute
ConcCalls == 2
SeqCalls == 3
CfgCalls == 2
\* calls made by the single caller of a size-bounded cache
SizedCalls == 4
\* calls made, nested ones included, where inner's body calls cached functions
RecCalls == 3
\* calls made by the callers that are scheduled fairly
FairCalls == 3
\* how far the clock runs
MaxTime == 2

Threads == 1..NumThreads
\* values an argument of the annotated function takes; it has two arguments
ArgValues == {0, 1}
Inputs == {<<a, b>> : a \in ArgValues, b \in ArgValues}
\* the values given to size = .. and time = .. in the attribute
SizeValues == {1, 2}
TimeValues == {1}
\* the convert = ".." blocks tried: one that drops an argument, one that
\* keeps both
ConvertBlocks == {"{ a }", "{ (b, a) }"}

None == <<>>
Some(v) == <<v>>
IsSome(o) == o /= <<>>

\* ------------------------------------------------------------ the macro
\* struct MacroArgs (name only picks the identifier of the static and is
\* left out)
MacroArgs ==
  [unbound : BOOLEAN,
   size : {None} \cup {Some(n) : n \in SizeValues},
   time : {None} \cup {Some(n) : n \in TimeValues},
   key : {None, Some("K")},
   convert : {None} \cup {Some(c) : c \in ConvertBlocks},
   result : BOOLEAN,
   option : BOOLEAN]

\* the three panic messages of the macro
IncompleteKeySpec == "key and convert arguments must be used together or not at all"
ConflictingBackendSpec == "cache types (unbound, size, or time) are mutually exclusive"
ConflictingResultPolicy == "the result and option attributes are mutually exclusive"

Panic(m) == [ok |-> FALSE, msg |-> m]
Resolved(v) == [ok |-> TRUE, val |-> v]

\* match (&args.key, &args.convert)
key_convert_block(a) ==
  CASE IsSome(a.key) /\ IsSome(a.convert) -> Resolved(a.convert[1])
    [] ~IsSome(a.key) /\ ~IsSome(a.convert) -> Resolved("default")
    [] OTHER -> Panic(IncompleteKeySpec)

\* cache_create that drops the size: a SizedCache becomes an UnboundCache
cache_create_SizeIgnored(a) ==
  CASE a.unbound /\ ~IsSome(a.size) /\ ~IsSome(a.time) ->
         Resolved([kind |-> "UnboundCache", arg |-> 0])
    [] ~a.unbound /\ IsSome(a.size) /\ ~IsSome(a.time) ->
         Resolved([kind |-> "UnboundCache", arg |-> 0])
    [] ~a.unbound /\ ~IsSome(a.size) /\ IsSome(a.time) ->
         Resolved([kind |-> "TimedCache", arg |-> a.time[1]])
    [] ~a.unbound /\ ~IsSome(a.size) /\ ~IsSome(a.time) ->
         Resolved([kind |-> "UnboundCache", arg |-> 0])
    [] OTHER -> Panic(ConflictingBackendSpec)

\* cache_create that lengthens the lifespan by one
cache_create_LongLived(a) ==
  CASE a.unbound /\ ~IsSome(a.size) /\ ~IsSome(a.time) ->
         Resolved([kind |-> "UnboundCache", arg |-> 0])
    [] ~a.unbound /\ IsSome(a.size) /\ ~IsSome(a.time) ->
         Resolved([kind |-> "SizedCache", arg |-> a.size[1]])
    [] ~a.unbound /\ ~IsSome(a.size) /\ IsSome(a.time) ->
         Resolved([kind |-> "TimedCache", arg |-> a.time[1] + 1])
    [] ~a.unbound /\ ~IsSome(a.size) /\ ~IsSome(a.time) ->
         Resolved([kind |-> "UnboundCache", arg |-> 0])
    [] OTHER -> Panic(ConflictingBackendSpec)

\* cache_create whose default is a SizedCache of one entry
cache_create_Bounded(a) ==
  CASE a.unbound /\ ~IsSome(a.size) /\ ~IsSome(a.time) ->
         Resolved([kind |-> "UnboundCache", arg |-> 0])
    [] ~a.unbound /\ IsSome(a.size) /\ ~IsSome(a.time) ->
         Resolved([kind |-> "SizedCache", arg |-> a.size[1]])
    [] ~a.unbound /\ ~IsSome(a.size) /\ IsSome(a.time) ->
         Resolved([kind |-> "TimedCache", arg |-> a.time[1]])
    [] ~a.unbound /\ ~IsSome(a.size) /\ ~IsSome(a.time) ->
         Resolved([kind |-> "SizedCache", arg |-> 1])
    [] OTHER -> Panic(ConflictingBackendSpec)

\* cache_create without the exclusivity check: unbound wins over size and time
cache_create_Lenient(a) ==
  CASE a.unbound -> Resolved([kind |-> "UnboundCache", arg |-> 0])
    [] IsSome(a.size) -> Resolved([kind |-> "SizedCache", arg |-> a.size[1]])
    [] IsSome(a.time) -> Resolved([kind |-> "TimedCache", arg |-> a.time[1]])
    [] OTHER -> Resolved([kind |-> "UnboundCache", arg |-> 0])

\* match (&args.unbound, &args.size, &args.time)
cache_create(a) ==
  CASE a.unbound /\ ~IsSome(a.size) /\ ~IsSome(a.time) ->
         Resolved([kind |-> "UnboundCache", arg |-> 0])
    [] ~a.unbound /\ IsSome(a.size) /\ ~IsSome(a.time) ->
         Resolved([kind |-> "SizedCache", arg |-> a.size[1]])
    [] ~a.unbound /\ ~IsSome(a.size) /\ IsSome(a.time) ->
         Resolved([kind |-> "TimedCache", arg |-> a.time[1]])
    [] ~a.unbound /\ ~IsSome(a.size) /\ ~IsSome(a.time) ->
         Resolved([kind |-> "UnboundCache", arg |-> 0])
    [] OTHER -> Panic(ConflictingBackendSpec)

\* set_cache_block without the exclusivity check: result wins over option
set_cache_block_Lenient(a) ==
  CASE a.result -> Resolved("OkOnly")
    [] a.option -> Resolved("SomeOnly")
    [] OTHER -> Resolved("All")

\* match (&args.result, &args.option)
set_cache_block(a) ==
  CASE ~a.result /\ ~a.option -> Resolved("All")
    [] a.result /\ ~a.option -> Resolved("OkOnly")
    [] ~a.result /\ a.option -> Resolved("SomeOnly")
    [] OTHER -> Panic(ConflictingResultPolicy)

NoBackend == [kind |-> "-", arg |-> 0]
Pending ==
  [state |-> "pending", msg |-> "", convert |-> "-", backend |-> NoBackend,
   policy |-> "-"]
Failed(m) ==
  [state |-> "panic", msg |-> m, convert |-> "-", backend |-> NoBackend,
   policy |-> "-"]

\* pub fn cached: the three matches run in this order and the first panic
\* aborts the expansion
cached(a) ==
  LET k == key_convert_block(a)
      c == cache_create(a)
      s == set_cache_block(a)
  IN  IF ~k.ok THEN Failed(k.msg)
      ELSE IF ~c.ok THEN Failed(c.msg)
      ELSE IF ~s.ok THEN Failed(s.msg)
      ELSE [state |-> "ok", msg |-> "", convert |-> k.val, backend |-> c.val,
            policy |-> s.val]

\* ------------------------------------------- the cache types (cached crate)
\* UnboundCache, SizedCache and TimedCache are used by the expansion through
\* the Cached trait (cache_get, cache_set) and are defined outside lib.rs.
\* A store is [map: key -> value, order: keys from least to most recently
\* used (SizedCache), stamp: key -> time of the store (TimedCache)].
EmptyMap == [q \in {} |-> 0]
Put(f, k, v) == [q \in DOMAIN f \cup {k} |-> IF q = k THEN v ELSE f[q]]
Drop(f, k) == [q \in DOMAIN f \ {k} |-> f[q]]
Without(s, k) == SelectSeq(s, LAMBDA q : q /= k)

\* UnboundCache::new(), SizedCache::with_size(n), TimedCache::with_lifespan(t)
cache_new == [map |-> EmptyMap, order |-> <<>>, stamp |-> EmptyMap]

\* whether a TimedCache entry of the given age may / must be treated as
\* absent: older than the lifespan it is absent, younger it is present, and
\* at exactly the lifespan either
MayExpire(b, age) == b.kind = "TimedCache" /\ age >= b.arg
MustExpire(b, age) == b.kind = "TimedCache" /\ age > b.arg

GetHit(c, b, k) ==
  [found |-> Some(c.map[k]),
   cache |-> IF b.kind = "SizedCache"
             THEN [c EXCEPT !.order = Append(Without(c.order, k), k)]
             ELSE c]
GetMiss(c, k) ==
  [found |-> None,
   cache |-> [map |-> Drop(c.map, k), order |-> Without(c.order, k),
              stamp |-> Drop(c.stamp, k)]]

\* Cached::cache_get(&key) at time t: the possible results
cache_get(c, b, k, t) ==
  IF k \notin DOMAIN c.map THEN {[found |-> None, cache |-> c]}
  ELSE IF b.kind /= "TimedCache" THEN {GetHit(c, b, k)}
  ELSE (IF MustExpire(b, t - c.stamp[k]) THEN {} ELSE {GetHit(c, b, k)})
       \cup (IF MayExpire(b, t - c.stamp[k]) THEN {GetMiss(c, k)} ELSE {})

\* Cached::cache_set(key, value) at time t
cache_set(c, b, k, v, t) ==
  CASE b.kind = "SizedCache" ->
         LET full == k \notin DOMAIN c.map /\ Len(c.order) >= b.arg
             lru == c.order[1]
             m == IF full THEN Drop(c.map, lru) ELSE c.map
             o == IF full THEN Tail(c.order) ELSE Without(c.order, k)
         IN  [map |-> Put(m, k, v), order |-> Append(o, k), stamp |-> c.stamp]
    [] b.kind = "TimedCache" ->
         [map |-> Put(c.map, k, v), order |-> c.order,
          stamp |-> Put(c.stamp, k, t)]
    [] OTHER -> [map |-> Put(c.map, k, v), order |-> c.order, stamp |-> c.stamp]

\* ------------------------------------------------ the annotated function
\* The item under the attribute: fn f(a, b) -> Result<_, _> or Option<_>,
\* with a body that is pure (its output is a function of its inputs) or not.
Items == [retTy : {"Result", "Option"}, pure : BOOLEAN]

Good(ty) == IF ty = "Result" THEN "Ok" ELSE "Some"
Bad(ty) == IF ty = "Result" THEN "Err" ELSE "None"
\* a value of the return type; None carries no payload
Out(tag, v) == [tag |-> tag, val |-> IF tag = "None" THEN 0 ELSE v]
Panicked == [tag |-> "Panic", val |-> 0]
NoResult == [tag |-> "-", val |-> 0]

\* the pure body: panics on (0, 0), yields the error / absent variant when
\* a > b and the success / present variant of 2a + b otherwise
PureBody(ty, x) ==
  IF x = <<0, 0>> THEN Panicked
  ELSE IF x[1] > x[2] THEN Out(Bad(ty), 2 * x[1] + x[2])
  ELSE Out(Good(ty), 2 * x[1] + x[2])

\* the impure body: any variant with any of two payloads, or a panic
ImpureVals == {0, 1}
ImpureBody(ty) ==
  {Out(tag, v) : tag \in {Good(ty), Bad(ty)}, v \in ImpureVals} \cup {Panicked}

\* fn inner(#inputs) #output #body: the outcomes of one execution
inner(it, x) == IF it.pure THEN {PureBody(it.retTy, x)} ELSE ImpureBody(it.retTy)

\* a default block that clones the first argument only
KeyOf_FirstArg(block, x) ==
  CASE block = "{ (b, a) }" -> <<x[2], x[1]>>
    [] OTHER -> <<x[1]>>

\* let key = #key_convert_block, for the default block
\* (#(#input_names.clone()),*) and for the convert blocks
KeyOf(block, x) ==
  CASE block = "default" -> <<x[1], x[2]>>
    [] block = "{ a }" -> <<x[1]>>
    [] block = "{ (b, a) }" -> <<x[2], x[1]>>

AllKeys == {KeyOf(b, x) : b \in ConvertBlocks \cup {"default"}, x \in Inputs}

\* a set-cache block that drops Err and None whatever the attribute says
StoredValue_GoodOnly(policy, r) ==
  IF r.tag \in {"Ok", "Some"} THEN Some(r) ELSE None

\* a set-cache block that stores whatever inner returned
StoredValue_Unfiltered(policy, r) == Some(r)

\* #set_cache_block: what the expansion passes to cache_set, if anything
StoredValue(policy, r) ==
  CASE policy = "All" -> Some(r)
    [] policy = "OkOnly" -> IF r.tag = "Ok" THEN Some(Out("Ok", r.val)) ELSE None
    [] policy = "SomeOnly" -> IF r.tag = "Some" THEN Some(Out("Some", r.val)) ELSE None

\* the functions under the attribute: the annotated function and another
\* cached function of the program, expanded from the same attribute and body,
\* each with a static of its own
Fns == {1, 2}

\* ------------------------------------------------------------------ state
VARIABLES
  args,      \* the attribute's arguments
  item,      \* the annotated function
  load,      \* what the callers do: the inputs they pass, the calls they make
  expanded,  \* the macro's result: pending, panic, or the resolved plan
  lazy,      \* per function: once_cell::sync::Lazy: Uninitialized, Initializing, Ready
  initializer, \* per function: the thread running the Lazy's closure (0: none)
  cache,     \* per function: the cache inside the Mutex
  mutex,     \* per function: the invocation holding the MutexGuard (0: unlocked)
  poisoned,  \* per function: the Mutex's poison flag
  now,       \* the clock TimedCache reads
  pc,        \* per invocation slot: its place in the wrapper body
  fn,        \* per invocation slot: the function called
  caller,    \* per invocation slot: 0 for a thread's outermost call, else the
             \* invocation whose inner made this call (on the same thread)
  inputs,    \* per invocation slot: the arguments of its call
  key,       \* per invocation slot: let key
  result,    \* per invocation slot: let result (also the hit's clone)
  hit,       \* per invocation: whether its cache_get found a value
  lookups,   \* per invocation: its cache_get calls
  stores,    \* per invocation: its cache_set calls
  runs,      \* per invocation: its inner calls
  own,       \* per invocation: what its own call of inner returned
  outcome,   \* per invocation slot: what its last invocation returned
  created,   \* per function: how often the Lazy's closure has run
  outs,      \* per function and key: the outcomes of the executions of inner
  calls,     \* per function and key: invocations that derived this key
  last,      \* per function and key: the latest cache_set, its value and time
  raced,     \* <<function, key>> for which two threads ran inner at once
  log,       \* the lookups made, in order (kept when load.trace)
  total      \* invocations started

vars ==
  <<args, item, load, expanded, lazy, initializer, cache, mutex, poisoned,
    now, pc, fn, caller, inputs, key, result, hit, lookups, stores, runs, own,
    outcome, created, outs, calls, last, raced, log, total>>

cfg == <<args, item, load, expanded>>
static == <<lazy, initializer, cache, mutex, poisoned, created>>
frame == <<fn, caller>>
locals == <<inputs, key, result, hit>>
counts == <<lookups, stores, runs, own, outs, calls, last, raced, log, total>>

NoOutcome == [kind |-> "none", value |-> NoResult]
Returned(v) == [kind |-> "value", value |-> v]
Unwound == [kind |-> "panic", value |-> NoResult]

\* an item the expansion type-checks with: result needs a Result output,
\* option an Option output
Compatible(a, it) ==
  /\ (a.result /\ ~a.option) => it.retTy = "Result"
  /\ (a.option /\ ~a.result) => it.retTy = "Option"

\* the state before the macro has run and before any call, for attributes
\* A, items I and the workload L
InitLoad(A, I, L) ==
  /\ args \in A
  /\ item \in I
  /\ Compatible(args, item)
  /\ load = L
  /\ expanded = Pending
  /\ lazy = [f \in Fns |-> "Uninitialized"]
  /\ initializer = [f \in Fns |-> 0]
  /\ cache = [f \in Fns |-> cache_new]
  /\ mutex = [f \in Fns |-> 0]
  /\ poisoned = [f \in Fns |-> FALSE]
  /\ now = 0
  /\ pc = [t \in Threads |-> "idle"]
  /\ fn = [t \in Threads |-> 1]
  /\ caller = [t \in Threads |-> 0]
  /\ inputs = [t \in Threads |-> <<0, 0>>]
  /\ key = [t \in Threads |-> <<>>]
  /\ result = [t \in Threads |-> NoResult]
  /\ hit = [t \in Threads |-> FALSE]
  /\ lookups = [t \in Threads |-> 0]
  /\ stores = [t \in Threads |-> 0]
  /\ runs = [t \in Threads |-> 0]
  /\ own = [t \in Threads |-> NoResult]
  /\ outcome = [t \in Threads |-> NoOutcome]
  /\ created = [f \in Fns |-> 0]
  /\ outs = [f \in Fns |-> [k \in AllKeys |-> <<>>]]
  /\ calls = [f \in Fns |-> [k \in AllKeys |-> 0]]
  /\ last = [f \in Fns |-> [k \in AllKeys |-> [value |-> NoResult, at |-> 0]]]
  /\ raced = {}
  /\ log = <<>>
  /\ total = 0

\* callers of the annotated function alone, passing inputs X, n calls in all
InitWith(A, I, X, n) ==
  InitLoad(A, I, [inputs |-> X, calls |-> n, fns |-> {1}, trace |-> FALSE])

\* every attribute, one caller
Init == InitWith(MacroArgs, Items, Inputs, CfgCalls)

\* the attributes that leave the cache type to its default
DefaultCache == {a \in MacroArgs : ~a.unbound /\ a.size = None /\ a.time = None}
\* those that resolve
Resolving == {a \in MacroArgs : cached(a).state = "ok"}

InitSeq == InitWith(DefaultCache \cap Resolving, Items, Inputs, SeqCalls)

\* concurrent callers pass two inputs: the default key tells them apart,
\* the key of { a } does not
ConcInputs == {<<1, 0>>, <<1, 1>>}
InitConc ==
  InitWith({a \in DefaultCache \cap Resolving : a.convert /= Some("{ (b, a) }")},
           Items, ConcInputs, ConcCalls)

\* ---------------------------------------------------------------- actions
\* the compiler runs the attribute macro on the item, once
Expand ==
  /\ expanded.state = "pending"
  /\ expanded' = cached(args)
  /\ UNCHANGED <<args, item, load, static, now, pc, frame, locals, counts,
                 outcome>>

\* the function is entered in slot t with arguments x, called by c
Enter(t, f, x, c) ==
  /\ fn' = [fn EXCEPT ![t] = f]
  /\ caller' = [caller EXCEPT ![t] = c]
  /\ inputs' = [inputs EXCEPT ![t] = x]
  /\ pc' = [pc EXCEPT ![t] = "key"]
  /\ key' = [key EXCEPT ![t] = <<>>]
  /\ result' = [result EXCEPT ![t] = NoResult]
  /\ hit' = [hit EXCEPT ![t] = FALSE]
  /\ lookups' = [lookups EXCEPT ![t] = 0]
  /\ stores' = [stores EXCEPT ![t] = 0]
  /\ runs' = [runs EXCEPT ![t] = 0]
  /\ own' = [own EXCEPT ![t] = NoResult]
  /\ outcome' = [outcome EXCEPT ![t] = NoOutcome]
  /\ total' = total + 1
  /\ UNCHANGED <<cfg, static, now, outs, calls, last, raced, log>>

\* a thread calls the generated function; there is one only if the macro
\* did not panic
Call(t) ==
  /\ expanded.state = "ok"
  /\ pc[t] = "idle"
  /\ caller[t] = 0
  /\ total < load.calls
  /\ \E f \in load.fns, x \in load.inputs : Enter(t, f, x, 0)

\* let key = #key_convert_block;
DeriveKey(t) ==
  /\ pc[t] = "key"
  /\ LET k == KeyOf(expanded.convert, inputs[t])
     IN  /\ key' = [key EXCEPT ![t] = k]
         /\ calls' = [calls EXCEPT ![fn[t]][k] = @ + 1]
  /\ pc' = [pc EXCEPT ![t] = "lock1"]
  /\ UNCHANGED <<cfg, static, now, frame, inputs, result, hit, lookups, stores,
                 runs, own, outs, last, raced, log, total, outcome>>

\* a static that is constructed again by whoever finds no construction running
LazyStart_Again(t) ==
  /\ pc[t] \in {"lock1", "lock2"}
  /\ lazy[fn[t]] /= "Initializing"
  /\ lazy' = [lazy EXCEPT ![fn[t]] = "Initializing"]
  /\ initializer' = [initializer EXCEPT ![fn[t]] = t]
  /\ UNCHANGED <<cfg, cache, mutex, poisoned, created, now, pc, frame, locals,
                 counts, outcome>>

\* #cache_ident.lock() dereferences the Lazy: the first thread to find it
\* uninitialized runs the closure, the others wait until it is ready
LazyStart(t) ==
  /\ pc[t] \in {"lock1", "lock2"}
  /\ lazy[fn[t]] = "Uninitialized"
  /\ lazy' = [lazy EXCEPT ![fn[t]] = "Initializing"]
  /\ initializer' = [initializer EXCEPT ![fn[t]] = t]
  /\ UNCHANGED <<cfg, cache, mutex, poisoned, created, now, pc, frame, locals,
                 counts, outcome>>

\* || std::sync::Mutex::new(#cache_create)
LazyFinish(t) ==
  /\ lazy[fn[t]] = "Initializing"
  /\ initializer[fn[t]] = t
  /\ cache' = [cache EXCEPT ![fn[t]] = cache_new]
  /\ mutex' = [mutex EXCEPT ![fn[t]] = 0]
  /\ poisoned' = [poisoned EXCEPT ![fn[t]] = FALSE]
  /\ created' = [created EXCEPT ![fn[t]] = @ + 1]
  /\ lazy' = [lazy EXCEPT ![fn[t]] = "Ready"]
  /\ initializer' = [initializer EXCEPT ![fn[t]] = 0]
  /\ UNCHANGED <<cfg, now, pc, frame, locals, counts, outcome>>

\* Mutex::lock on the static of f returns once the Lazy is ready and no
\* invocation holds the guard (the Mutex is not reentrant)
Acquirable(f) == lazy[f] = "Ready" /\ mutex[f] = 0

\* #cache_ident.lock().unwrap(): takes the guard and goes on at `to`, or,
\* the Mutex being poisoned, panics in unwrap and gives the guard back
LockUnwrap(t, to) ==
  /\ Acquirable(fn[t])
  /\ IF poisoned[fn[t]]
     THEN /\ pc' = [pc EXCEPT ![t] = "idle"]
          /\ outcome' = [outcome EXCEPT ![t] = Unwound]
          /\ UNCHANGED mutex
     ELSE /\ pc' = [pc EXCEPT ![t] = to]
          /\ mutex' = [mutex EXCEPT ![fn[t]] = t]
          /\ UNCHANGED outcome
  /\ UNCHANGED <<cfg, lazy, initializer, cache, poisoned, created, now, frame,
                 locals, counts>>

\* let mut cache = #cache_ident.lock().unwrap();   (the lookup's)
Lock1(t) == pc[t] = "lock1" /\ LockUnwrap(t, "get")

\* the lookup as logged
Logged(t, found) ==
  IF load.trace THEN Append(log, [key |-> key[t], hit |-> IsSome(found)]) ELSE log

\* a lookup whose result is not used: the wrapper goes on as after a miss
Get_IgnoresHit(t) ==
  /\ pc[t] = "get"
  /\ \E r \in cache_get(cache[fn[t]], expanded.backend, key[t], now) :
       /\ cache' = [cache EXCEPT ![fn[t]] = r.cache]
       /\ hit' = [hit EXCEPT ![t] = IsSome(r.found)]
       /\ log' = Logged(t, r.found)
  /\ pc' = [pc EXCEPT ![t] = "miss"]
  /\ lookups' = [lookups EXCEPT ![t] = @ + 1]
  /\ UNCHANGED <<cfg, lazy, initializer, mutex, poisoned, created, now, frame,
                 inputs, key, result, stores, runs, own, outs, calls, last,
                 raced, total, outcome>>

\* if let Some(result) = cache.cache_get(&key)
Get(t) ==
  /\ pc[t] = "get"
  /\ \E r \in cache_get(cache[fn[t]], expanded.backend, key[t], now) :
       /\ cache' = [cache EXCEPT ![fn[t]] = r.cache]
       /\ hit' = [hit EXCEPT ![t] = IsSome(r.found)]
       /\ result' = [result EXCEPT ![t] = IF IsSome(r.found) THEN r.found[1] ELSE @]
       /\ pc' = [pc EXCEPT ![t] = IF IsSome(r.found) THEN "hit" ELSE "miss"]
       /\ log' = Logged(t, r.found)
  /\ lookups' = [lookups EXCEPT ![t] = @ + 1]
  /\ UNCHANGED <<cfg, lazy, initializer, mutex, poisoned, created, now, frame,
                 inputs, key, stores, runs, own, outs, calls, last, raced,
                 total, outcome>>

\* a hit that does not return: the guard is dropped and inner is run
ReturnHit_FallsThrough(t) ==
  /\ pc[t] = "hit"
  /\ mutex' = [mutex EXCEPT ![fn[t]] = 0]
  /\ pc' = [pc EXCEPT ![t] = "inner"]
  /\ UNCHANGED <<cfg, lazy, initializer, cache, poisoned, created, now, frame,
                 locals, counts, outcome>>

\* return result.clone();   (the guard is dropped on the way out)
ReturnHit(t) ==
  /\ pc[t] = "hit"
  /\ mutex' = [mutex EXCEPT ![fn[t]] = 0]
  /\ outcome' = [outcome EXCEPT ![t] = Returned(result[t])]
  /\ pc' = [pc EXCEPT ![t] = "idle"]
  /\ UNCHANGED <<cfg, lazy, initializer, cache, poisoned, created, now, frame,
                 locals, counts>>

\* a lookup without its own block: the guard lives on while inner runs
Unlock1_KeepsGuard(t) ==
  /\ pc[t] = "miss"
  /\ pc' = [pc EXCEPT ![t] = "inner"]
  /\ UNCHANGED <<cfg, static, now, frame, locals, counts, outcome>>

\* the end of the lookup's block drops the guard; inner is entered
Unlock1(t) ==
  /\ pc[t] = "miss"
  /\ mutex' = [mutex EXCEPT ![fn[t]] = 0]
  /\ pc' = [pc EXCEPT ![t] = "inner"]
  /\ raced' = IF \E u \in Threads \ {t} :
                   pc[u] = "inner" /\ fn[u] = fn[t] /\ key[u] = key[t]
              THEN raced \cup {<<fn[t], key[t]>>} ELSE raced
  /\ UNCHANGED <<cfg, lazy, initializer, cache, poisoned, created, now, frame,
                 locals, lookups, stores, runs, own, outs, calls, last, log,
                 total, outcome>>

\* inner called with its arguments in the wrong order
InnerArgs_Swapped(x) == <<x[2], x[1]>>

\* fn inner(#inputs) is called with #(#input_names),*
InnerArgs(x) == <<x[1], x[2]>>

\* the body of inner is waiting for a call it made to come back
Awaiting(t) == \E u \in Threads : caller[u] = t

\* the guards an unwinding invocation drops, poisoning their Mutexes
Unwinding(t) ==
  /\ mutex' = [f \in Fns |-> IF mutex[f] = t THEN 0 ELSE mutex[f]]
  /\ poisoned' = [f \in Fns |-> poisoned[f] \/ mutex[f] = t]

\* let result = inner(#(#input_names),*);   returning a value
Inner(t) ==
  /\ pc[t] = "inner"
  /\ ~Awaiting(t)
  /\ \E o \in inner(item, InnerArgs(inputs[t])) :
       /\ o /= Panicked
       /\ result' = [result EXCEPT ![t] = o]
       /\ own' = [own EXCEPT ![t] = o]
       /\ outs' = [outs EXCEPT ![fn[t]][key[t]] = Append(@, o)]
  /\ runs' = [runs EXCEPT ![t] = @ + 1]
  /\ pc' = [pc EXCEPT ![t] = "lock2"]
  /\ UNCHANGED <<cfg, static, now, frame, inputs, key, hit, lookups, stores,
                 calls, last, raced, log, total, outcome>>

\* inner panics: the wrapper catches nothing and the call unwinds, which
\* drops a guard the invocation holds and poisons its Mutex
InnerPanic(t) ==
  /\ pc[t] = "inner"
  /\ ~Awaiting(t)
  /\ Panicked \in inner(item, InnerArgs(inputs[t]))
  /\ runs' = [runs EXCEPT ![t] = @ + 1]
  /\ own' = [own EXCEPT ![t] = Panicked]
  /\ outs' = [outs EXCEPT ![fn[t]][key[t]] = Append(@, Panicked)]
  /\ outcome' = [outcome EXCEPT ![t] = Unwound]
  /\ pc' = [pc EXCEPT ![t] = "idle"]
  /\ Unwinding(t)
  /\ UNCHANGED <<cfg, lazy, initializer, cache, created, now, frame, locals,
                 lookups, stores, calls, last, raced, log, total>>

\* a store that does not take the lock
Lock2_NoLock(t) ==
  /\ pc[t] = "lock2"
  /\ pc' = [pc EXCEPT ![t] = "set"]
  /\ UNCHANGED <<cfg, static, now, frame, locals, counts, outcome>>

\* let mut cache = #cache_ident.lock().unwrap();   (the store's)
Lock2(t) == pc[t] = "lock2" /\ LockUnwrap(t, "set")

\* a store under a key derived again, from the inputs in the other order
Set_OtherKey(t) ==
  /\ pc[t] = "set"
  /\ LET v == StoredValue(expanded.policy, result[t])
         k == KeyOf(expanded.convert, <<inputs[t][2], inputs[t][1]>>)
     IN  /\ cache' = IF IsSome(v)
                     THEN [cache EXCEPT ![fn[t]] =
                             cache_set(@, expanded.backend, k, v[1], now)]
                     ELSE cache
         /\ stores' = [stores EXCEPT ![t] = IF IsSome(v) THEN @ + 1 ELSE @]
         /\ last' = IF IsSome(v)
                    THEN [last EXCEPT ![fn[t]][k] = [value |-> v[1], at |-> now]]
                    ELSE last
  /\ pc' = [pc EXCEPT ![t] = "ret"]
  /\ UNCHANGED <<cfg, lazy, initializer, mutex, poisoned, created, now, frame,
                 locals, lookups, runs, own, outs, calls, raced, log, total,
                 outcome>>

\* a store that keeps the entry an earlier store wrote
Set_IfAbsent(t) ==
  /\ pc[t] = "set"
  /\ LET v == StoredValue(expanded.policy, result[t])
     IN  /\ cache' = IF IsSome(v) /\ key[t] \notin DOMAIN cache[fn[t]].map
                     THEN [cache EXCEPT ![fn[t]] =
                             cache_set(@, expanded.backend, key[t], v[1], now)]
                     ELSE cache
         /\ stores' = [stores EXCEPT ![t] = IF IsSome(v) THEN @ + 1 ELSE @]
         /\ last' = IF IsSome(v)
                    THEN [last EXCEPT ![fn[t]][key[t]] = [value |-> v[1], at |-> now]]
                    ELSE last
  /\ pc' = [pc EXCEPT ![t] = "ret"]
  /\ UNCHANGED <<cfg, lazy, initializer, mutex, poisoned, created, now, frame,
                 locals, lookups, runs, own, outs, calls, raced, log, total,
                 outcome>>

\* #set_cache_block
Set(t) ==
  /\ pc[t] = "set"
  /\ LET v == StoredValue(expanded.policy, result[t])
     IN  /\ cache' = IF IsSome(v)
                     THEN [cache EXCEPT ![fn[t]] =
                             cache_set(@, expanded.backend, key[t], v[1], now)]
                     ELSE cache
         /\ stores' = [stores EXCEPT ![t] = IF IsSome(v) THEN @ + 1 ELSE @]
         /\ last' = IF IsSome(v)
                    THEN [last EXCEPT ![fn[t]][key[t]] = [value |-> v[1], at |-> now]]
                    ELSE last
  /\ pc' = [pc EXCEPT ![t] = "ret"]
  /\ UNCHANGED <<cfg, lazy, initializer, mutex, poisoned, created, now, frame,
                 locals, lookups, runs, own, outs, calls, raced, log, total,
                 outcome>>

\* a return of what the cache holds for the key, when it holds something
Return_Cached(t) ==
  /\ pc[t] = "ret"
  /\ mutex' = [mutex EXCEPT ![fn[t]] = 0]
  /\ outcome' = [outcome EXCEPT ![t] =
                   IF key[t] \in DOMAIN cache[fn[t]].map
                   THEN Returned(cache[fn[t]].map[key[t]])
                   ELSE Returned(result[t])]
  /\ pc' = [pc EXCEPT ![t] = "idle"]
  /\ UNCHANGED <<cfg, lazy, initializer, cache, poisoned, created, now, frame,
                 locals, counts>>

\* a return that leaks the guard
Return_KeepsGuard(t) ==
  /\ pc[t] = "ret"
  /\ outcome' = [outcome EXCEPT ![t] = Returned(result[t])]
  /\ pc' = [pc EXCEPT ![t] = "idle"]
  /\ UNCHANGED <<cfg, static, now, frame, locals, counts>>

\* result   (the function returns and the guard is dropped)
Return(t) ==
  /\ pc[t] = "ret"
  /\ mutex' = [mutex EXCEPT ![fn[t]] = 0]
  /\ outcome' = [outcome EXCEPT ![t] = Returned(result[t])]
  /\ pc' = [pc EXCEPT ![t] = "idle"]
  /\ UNCHANGED <<cfg, lazy, initializer, cache, poisoned, created, now, frame,
                 locals, counts>>

\* time passes (only a TimedCache reads the clock)
Tick ==
  /\ expanded.backend.kind = "TimedCache"
  /\ now < MaxTime
  /\ now' = now + 1
  /\ UNCHANGED <<cfg, static, pc, frame, locals, counts, outcome>>

Step(t) ==
  \/ Call(t) \/ DeriveKey(t) \/ LazyStart(t) \/ LazyFinish(t) \/ Lock1(t)
  \/ Get(t) \/ ReturnHit(t) \/ Unlock1(t) \/ Inner(t) \/ InnerPanic(t)
  \/ Lock2(t) \/ Set(t) \/ Return(t)

\* one caller, every attribute
Next == Expand \/ Tick \/ Step(1)
Spec == Init /\ [][Next]_vars

\* one caller, a sequence of calls
NextSeq == Expand \/ Step(1)
SpecSeq == InitSeq /\ [][NextSeq]_vars

\* concurrent callers
NextConc == Expand \/ \E t \in Threads : Step(t)
SpecConc == InitConc /\ [][NextConc]_vars

\* one caller of a pure function with size = 2 and the default key, its
\* lookups logged
InitSized ==
  InitLoad({a \in Resolving : a.size = Some(2) /\ a.key = None},
           {it \in Items : it.pure},
           [inputs |-> Inputs, calls |-> SizedCalls, fns |-> {1}, trace |-> TRUE])
SpecSized == InitSized /\ [][NextSeq]_vars

\* a slot no invocation uses
Free(u) == pc[u] = "idle" /\ caller[u] = 0

\* inner's #body calls a cached function, its own wrapper (recursion) or
\* another's: the call runs on the caller's thread, in a free slot u, and
\* the body waits for it
NestedCall(t, u) ==
  /\ pc[t] = "inner"
  /\ ~Awaiting(t)
  /\ u /= t
  /\ Free(u)
  /\ total < load.calls
  /\ \E f \in load.fns, x \in load.inputs : Enter(u, f, x, t)

\* the call made by inner's body has returned a value: the body goes on
NestedReturn(t, u) ==
  /\ caller[u] = t
  /\ pc[u] = "idle"
  /\ outcome[u].kind = "value"
  /\ caller' = [caller EXCEPT ![u] = 0]
  /\ UNCHANGED <<cfg, static, now, pc, fn, locals, counts, outcome>>

\* the call made by inner's body has panicked: the panic unwinds through
\* inner and through the wrapper that called it
NestedPanic(t, u) ==
  /\ caller[u] = t
  /\ pc[u] = "idle"
  /\ outcome[u] = Unwound
  /\ caller' = [caller EXCEPT ![u] = 0]
  /\ runs' = [runs EXCEPT ![t] = @ + 1]
  /\ own' = [own EXCEPT ![t] = Panicked]
  /\ outs' = [outs EXCEPT ![fn[t]][key[t]] = Append(@, Panicked)]
  /\ outcome' = [outcome EXCEPT ![t] = Unwound]
  /\ pc' = [pc EXCEPT ![t] = "idle"]
  /\ Unwinding(t)
  /\ UNCHANGED <<cfg, lazy, initializer, cache, created, now, fn, locals,
                 lookups, stores, calls, last, raced, log, total>>

\* threads calling two pure cached functions whose bodies may call either
\* of them; the body panics on (0, 0)
RecInputs == {<<0, 0>>, <<0, 1>>}
InitRec ==
  InitLoad({a \in DefaultCache \cap Resolving : a.key = None},
           {it \in Items : it.pure},
           [inputs |-> RecInputs, calls |-> RecCalls, fns |-> Fns, trace |-> FALSE])
NextRec ==
  \/ Expand
  \/ \E t \in Threads : Step(t)
  \/ \E t, u \in Threads : NestedCall(t, u) \/ NestedReturn(t, u) \/ NestedPanic(t, u)
SpecRec == InitRec /\ [][NextRec]_vars

\* the steps of a call once made: the thread runs the wrapper body
Proceed(t) ==
  \/ DeriveKey(t) \/ LazyStart(t) \/ LazyFinish(t) \/ Lock1(t) \/ Get(t)
  \/ ReturnHit(t) \/ Unlock1(t) \/ Inner(t) \/ InnerPanic(t) \/ Lock2(t)
  \/ Set(t) \/ Return(t)

\* concurrent callers under a fair scheduler: a thread that can go on in
\* the wrapper body does; the callers make finitely many calls, so std's
\* Mutex, which promises no order among waiters, is free for good at some
\* point for any thread still waiting
\* the function is pure and its body panics on (0, 0)
FairInputs == {<<0, 0>>, <<1, 1>>}
InitFair ==
  InitWith({a \in DefaultCache \cap Resolving : a.key = None},
           {it \in Items : it.pure}, FairInputs, FairCalls)
SpecFair ==
  InitFair /\ [][NextConc]_vars /\ \A t \in Threads : WF_vars(Proceed(t))

\* ----------------------------------------------------------------- claims
BackendOptions(a) ==
  (IF a.unbound THEN 1 ELSE 0) + (IF IsSome(a.size) THEN 1 ELSE 0)
    + (IF IsSome(a.time) THEN 1 ELSE 0)
\* the cache type the single option names (UnboundCache when there is none)
NamedBackend(a) ==
  IF IsSome(a.size) THEN [kind |-> "SizedCache", arg |-> a.size[1]]
  ELSE IF IsSome(a.time) THEN [kind |-> "TimedCache", arg |-> a.time[1]]
  ELSE [kind |-> "UnboundCache", arg |-> 0]
KeyComplete(a) == IsSome(a.key) <=> IsSome(a.convert)
PolicyConflict(a) == a.result /\ a.option
Expanded == expanded.state /= "pending"
NoInvocation ==
  /\ total = 0
  /\ \A t \in Threads : pc[t] = "idle" /\ lookups[t] = 0 /\ runs[t] = 0 /\ stores[t] = 0
  /\ \A f \in Fns : lazy[f] = "Uninitialized"

\* C9 as stated: whatever the other options are, the macro resolves to the
\* one cache type named when at most one of unbound, size, time is given,
\* and fails with ConflictingBackendSpec when more than one is.
C9_AsStated ==
  Expanded =>
    IF BackendOptions(args) <= 1
    THEN expanded.state = "ok" /\ expanded.backend = NamedBackend(args)
    ELSE expanded = Failed(ConflictingBackendSpec)

\* C9 amended: the key/convert pair is matched first, so the statement holds
\* of the attributes whose key and convert are both given or both absent:
\* with more than one of unbound, size, time the macro fails with
\* ConflictingBackendSpec; with at most one it goes on to the result policy
\* and, unless result and option are both given, resolves to the one cache
\* type named (UnboundCache when none is).
C9_BackendResolution ==
  (Expanded /\ KeyComplete(args)) =>
    IF BackendOptions(args) > 1 THEN expanded = Failed(ConflictingBackendSpec)
    ELSE IF PolicyConflict(args) THEN expanded = Failed(ConflictingResultPolicy)
    ELSE expanded.state = "ok" /\ expanded.backend = NamedBackend(args)

\* C9 witness: unbound together with size was rejected as a backend conflict
C9_Witness ==
  /\ args.unbound /\ IsSome(args.size)
  /\ expanded = Failed(ConflictingBackendSpec)

\* C10 as stated: exactly one of key/convert fails with IncompleteKeySpec,
\* result together with option fails with ConflictingResultPolicy, and no
\* invocation happens under an attribute that breaks a rule.
C10_AsStated ==
  /\ (Expanded /\ ~KeyComplete(args)) => expanded = Failed(IncompleteKeySpec)
  /\ (Expanded /\ PolicyConflict(args)) => expanded = Failed(ConflictingResultPolicy)
  /\ expanded.state /= "ok" => NoInvocation
  /\ (~KeyComplete(args) \/ BackendOptions(args) > 1 \/ PolicyConflict(args))
       => NoInvocation

\* C10 amended: exactly one of key/convert fails with IncompleteKeySpec;
\* result together with option fails with ConflictingResultPolicy when the
\* key pair is complete and at most one of unbound, size, time is given
\* (an attribute breaking several rules fails with the first broken one in
\* the order key, cache type, result policy); every such failure happens in
\* the macro, so no invocation happens under an attribute that breaks a rule,
\* nor before the macro has run.
C10_ConfigErrors ==
  /\ (Expanded /\ ~KeyComplete(args)) => expanded = Failed(IncompleteKeySpec)
  /\ (Expanded /\ KeyComplete(args) /\ BackendOptions(args) <= 1
        /\ PolicyConflict(args))
       => expanded = Failed(ConflictingResultPolicy)
  /\ (Expanded /\ (~KeyComplete(args) \/ BackendOptions(args) > 1
                     \/ PolicyConflict(args)))
       => expanded.state = "panic"
  /\ expanded.state /= "ok" => NoInvocation
  /\ (~KeyComplete(args) \/ BackendOptions(args) > 1 \/ PolicyConflict(args))
       => NoInvocation

\* C10 witness: result together with option was rejected, nothing was called
C10_Witness ==
  /\ args.result /\ args.option
  /\ expanded = Failed(ConflictingResultPolicy)
  /\ NoInvocation

\* whether the set-cache block stores this outcome of inner
Storable(o) == o /= Panicked /\ IsSome(StoredValue(expanded.policy, o))
Executions(k) == Len(outs[1][k])
LastOut(k) == outs[1][k][Len(outs[1][k])]

\* C1 as stated: with one caller, once the calls made with a key have
\* returned, inner has been executed exactly once for that key (stated here
\* of the keys for which inner never panicked, which is less than the claim).
C1_AsStated ==
  \A k \in AllKeys :
    (/\ pc[1] = "idle"
     /\ calls[1][k] >= 1
     /\ \A i \in DOMAIN outs[1][k] : outs[1][k][i] /= Panicked)
      => Executions(k) = 1

\* C1 amended: with one caller and the unbounded cache, inner is executed
\* once per key as long as its output is stored: after N >= 1 calls with the
\* same key, none of whose executions panicked or produced an output the
\* set-cache block drops (Err under result, None under option), inner has
\* been executed exactly once for that key; and at no time has a key more
\* than one execution whose output was stored.
C1_OncePerStoredKey ==
  \A k \in AllKeys :
    /\ (/\ pc[1] = "idle"
        /\ calls[1][k] >= 1
        /\ \A i \in DOMAIN outs[1][k] : Storable(outs[1][k][i]))
         => Executions(k) = 1
    /\ Cardinality({i \in DOMAIN outs[1][k] : Storable(outs[1][k][i])}) <= 1

\* C1 witness: three calls with one key have returned after one execution
C1_Witness ==
  \E k \in AllKeys :
    pc[1] = "idle" /\ calls[1][k] >= 3 /\ Executions(k) = 1 /\ Storable(outs[1][k][1])

\* C2 as stated: with a pure body, whatever a call returns is the body's
\* output for that call's own inputs.
C2_AsStated ==
  \A t \in Threads :
    (item.pure /\ outcome[t].kind = "value")
      => outcome[t].value = PureBody(item.retTy, inputs[t])

\* the key block maps different inputs to different keys
KeyInjective ==
  \A x, y \in load.inputs :
    KeyOf(expanded.convert, x) = KeyOf(expanded.convert, y) => x = y

\* C2 amended: with a pure body and a key that tells the inputs apart (the
\* default key, or a convert block that maps different inputs to different
\* keys), whatever a call returns is the body's output for that call's own
\* inputs. (Under a convert block that maps two inputs to one key, a call
\* returns the output stored for the other input.)
C2_ReturnsOwnOutput ==
  \A t \in Threads :
    (item.pure /\ outcome[t].kind = "value" /\ KeyInjective)
      => outcome[t].value = PureBody(item.retTy, inputs[t])

\* C2 witness: the third call, with a pure body and the default key, was
\* answered from the cache
C2_Witness ==
  /\ item.pure /\ expanded.convert = "default"
  /\ total >= 3 /\ hit[1] /\ outcome[1].kind = "value"

\* C7: under result (OkOnly), with one caller: while the last execution of
\* inner for a key returned Err, the cache holds nothing for that key, a
\* lookup of it has not hit, and once the caller is back every call made
\* with that key has executed inner (each found nothing and ran it again).
C7_ErrNotCached ==
  expanded.policy = "OkOnly" =>
    \A k \in AllKeys :
      (outs[1][k] /= <<>> /\ LastOut(k).tag = "Err") =>
        /\ k \notin DOMAIN cache[1].map
        /\ key[1] = k => ~hit[1]
        /\ pc[1] = "idle" => Executions(k) = calls[1][k]

\* C7 witness: inner returned Err for a key and was executed again by the
\* next call with that key
C7_Witness ==
  /\ expanded.policy = "OkOnly" /\ pc[1] = "idle"
  /\ \E k \in AllKeys :
       Executions(k) >= 2 /\ outs[1][k][1].tag = "Err" /\ calls[1][k] = Executions(k)

Finished(t) == outcome[t].kind /= "none"
\* the places of the wrapper body where the MutexGuard is alive
Holding(t) == pc[t] \in {"get", "hit", "miss", "set", "ret"}

\* C3: an invocation makes at most one lookup, one store and one execution
\* of inner; once past its lookup it has made exactly one; one whose lookup
\* hit executes nothing, stores nothing and returns the value the cache
\* held for its key.
C3_OneLookupOneStore ==
  \A t \in Threads :
    /\ lookups[t] <= 1 /\ stores[t] <= 1 /\ runs[t] <= 1
    /\ (Finished(t) \/ pc[t] \in {"hit", "miss", "inner", "lock2", "set", "ret"})
         => lookups[t] = 1
    /\ hit[t] =>
         /\ runs[t] = 0 /\ stores[t] = 0
         /\ pc[t] = "hit" =>
              key[t] \in DOMAIN cache[1].map /\ result[t] = cache[1].map[key[t]]
         /\ Finished(t) => outcome[t] = Returned(result[t])

\* C3 witness: an invocation returned from a hit
C3_Witness ==
  \E t \in Threads :
    Finished(t) /\ hit[t] /\ lookups[t] = 1 /\ runs[t] = 0 /\ stores[t] = 0

\* C4: at most one thread holds the lock, the holder is the thread the
\* Mutex names, a thread at its lookup or its store holds it, and a thread
\* executing inner does not.
C4_LockDiscipline ==
  /\ Cardinality({t \in Threads : Holding(t)}) <= 1
  /\ \A t \in Threads :
       /\ Holding(t) <=> mutex[fn[t]] = t
       /\ pc[t] \in {"get", "set"} => mutex[fn[t]] = t
       /\ pc[t] = "inner" => \A f \in Fns : mutex[f] /= t

\* C4 witness: one thread executes inner while another, holding the lock,
\* is at its store
C4_Witness ==
  \E t, u \in Threads : pc[t] = "inner" /\ pc[u] = "set" /\ mutex[1] = u

\* no invocation in flight is stuck: while some thread is inside the
\* wrapper, one of those threads can take a step
NoDeadlock ==
  (\E t \in Threads : pc[t] /= "idle")
    => \E t \in Threads : pc[t] /= "idle" /\ ENABLED Step(t)

\* the first two invocations were made by t and u with one key, both were
\* executing inner at once, and both have returned
RaceDone(t, u) ==
  /\ t /= u /\ total = 2
  /\ pc[t] = "idle" /\ pc[u] = "idle"
  /\ outcome[t].kind = "value" /\ outcome[u].kind = "value"
  /\ key[t] = key[u] /\ <<1, key[t]>> \in raced
\* what a lookup of k made now returns
LookupNow(k) == {r.found : r \in cache_get(cache[1], expanded.backend, k, now)}

\* C5 as stated: no deadlock, and after two racing invocations for a new
\* key have returned, a lookup of the key returns one of the two values
\* they computed.
C5_AsStated ==
  /\ NoDeadlock
  /\ \A t, u \in Threads :
       RaceDone(t, u) =>
         LookupNow(key[t]) \subseteq {Some(outcome[t].value), Some(outcome[u].value)}

\* C5 amended: no deadlock, and after two racing invocations for a new key
\* have returned, a lookup of the key returns one of the values they
\* computed that the set-cache block stores; when it stores neither (both
\* returned Err under result, or None under option), the lookup finds
\* nothing.
C5_RaceOutcome ==
  /\ NoDeadlock
  /\ \A t, u \in Threads :
       RaceDone(t, u) =>
         LET kept == {v \in {outcome[t].value, outcome[u].value} : Storable(v)}
         IN  IF kept = {} THEN LookupNow(key[t]) = {None}
             ELSE LookupNow(key[t]) \subseteq {Some(v) : v \in kept}

\* C5 witness: two threads executed inner at once for a new key, computed
\* different values and returned, and the cache holds one of the two
C5_Witness ==
  \E t, u \in Threads :
    /\ RaceDone(t, u)
    /\ runs[t] = 1 /\ runs[u] = 1
    /\ outcome[t].value /= outcome[u].value
    /\ LookupNow(key[t]) \subseteq {Some(outcome[t].value), Some(outcome[u].value)}

\* C6: an invocation whose inner panicked has made no store and holds no
\* lock, and the Mutex is never poisoned; the panicking step leaves the
\* cache and the lock as they were and ends the invocation with the panic.
C6_PanicLeavesCache ==
  /\ [](/\ \A f \in Fns : ~poisoned[f]
        /\ \A t \in Threads :
             outcome[t] = Unwound => stores[t] = 0 /\ runs[t] = 1 /\ mutex[1] /= t)
  /\ [][\A t \in Threads :
          InnerPanic(t) =>
            cache' = cache /\ mutex' = mutex /\ outcome'[t] = Unwound]_vars

\* C6 witness: after one thread's inner panicked, another thread holds the
\* lock and is at its store
C6_Witness ==
  \E t, u \in Threads : outcome[t] = Unwound /\ pc[u] = "set" /\ mutex[1] = u

\* C8: the Lazy's closure runs at most once, no thread is at a lookup or a
\* store unless the Lazy is ready, the Lazy only moves Uninitialized ->
\* Initializing -> Ready, and once it is ready the cache is not constructed
\* again.
C8_ConstructedOnce ==
  /\ [](/\ created[1] <= 1
        /\ lazy[1] = "Ready" <=> created[1] = 1
        /\ \A t \in Threads : Holding(t) => lazy[fn[t]] = "Ready")
  /\ [][/\ lazy'[1] /= lazy[1] =>
             <<lazy[1], lazy'[1]>> \in {<<"Uninitialized", "Initializing">>,
                                  <<"Initializing", "Ready">>}
        /\ lazy[1] = "Ready" => created'[1] = created[1]]_vars

\* C8 witness: a second thread waits at its first lock() while the first
\* runs the Lazy's closure
C8_Witness ==
  \E t, u \in Threads :
    /\ t /= u /\ lazy[1] = "Initializing" /\ initializer[1] = t
    /\ pc[t] = "lock1" /\ pc[u] = "lock1"


\* the macro resolved and left the key to its default
DefaultKey == expanded.state = "ok" /\ expanded.convert = "default"
\* the key the wrapper derives for the inputs x
KeyFor(x) == KeyOf(expanded.convert, x)

\* C11: under the default key, input tuples that differ in any position
\* (the same values in another order included) derive different keys, and
\* their entries are independent: a store made by a call with one tuple
\* never makes a lookup for another tuple find something it did not find
\* before, under any cache type.
C11_DefaultKeyIndependent ==
  /\ [](DefaultKey =>
          \A x, y \in Inputs : x /= y => KeyFor(x) /= KeyFor(y))
  /\ [][DefaultKey =>
          \A t \in Threads :
            Set(t) =>
              \A y \in Inputs \ {inputs[t]} :
                LookupNow(KeyFor(y))' \subseteq LookupNow(KeyFor(y)) \cup {None}]_vars

\* C11 witness: with the default key, the value of a call with (0, 1) is in
\* the cache and the lookup of the next call, with (1, 0), found nothing
C11_Witness ==
  /\ DefaultKey
  /\ KeyFor(<<0, 1>>) \in DOMAIN cache[1].map
  /\ inputs[1] = <<1, 0>> /\ pc[1] = "miss" /\ ~hit[1]

\* the single caller is back and its last three calls were made with the
\* keys a, b, c in that order, each lookup a miss
ThreeMisses(a, b, c) ==
  /\ pc[1] = "idle" /\ Len(log) >= 3
  /\ LET n == Len(log)
     IN  /\ log[n - 2] = [key |-> a, hit |-> FALSE]
         /\ log[n - 1] = [key |-> b, hit |-> FALSE]
         /\ log[n] = [key |-> c, hit |-> FALSE]
Distinct(a, b, c) == a /= b /\ b /= c /\ a /= c
\* a lookup of k made now is a miss / a hit
MissesNow(k) == LookupNow(k) = {None}
HitsNow(k) == None \notin LookupNow(k)

\* C12 as stated: with size = 2, after calls with the keys A, B, C in that
\* order, each a miss, a lookup of A misses and lookups of B and C hit
\* (stated here of calls whose execution did not panic, which is less than
\* the claim).
C12_AsStated ==
  args.size = Some(2) =>
    \A a, b, c \in AllKeys :
      (/\ Distinct(a, b, c) /\ ThreeMisses(a, b, c)
       /\ \A k \in {a, b, c} : LastOut(k) /= Panicked)
        => MissesNow(a) /\ HitsNow(b) /\ HitsNow(c)

\* C12 amended: with size = 2, after calls with the keys A, B, C in that
\* order, each a miss whose execution returned an output that the set-cache
\* block stores (no panic, no Err under result, no None under option), a
\* lookup of A misses and lookups of B and C hit.
C12_LruEviction ==
  args.size = Some(2) =>
    \A a, b, c \in AllKeys :
      (/\ Distinct(a, b, c) /\ ThreeMisses(a, b, c)
       /\ \A k \in {a, b, c} : Storable(LastOut(k)))
        => MissesNow(a) /\ HitsNow(b) /\ HitsNow(c)

\* C12 witness: three calls with different keys missed and stored, and the
\* lookup of the fourth call, made with the first key again, missed
C12_Witness ==
  /\ args.size = Some(2) /\ pc[1] = "miss" /\ Len(log) = 4
  /\ Distinct(log[1].key, log[2].key, log[3].key)
  /\ \A i \in 1..3 : ~log[i].hit /\ Storable(outs[1][log[i].key][1])
  /\ log[4] = [key |-> log[1].key, hit |-> FALSE]

\* something was stored for k, and how long ago the latest store was
Stored(k) == last[1][k].value /= NoResult
Age(k) == now - last[1][k].at

\* C13: with time = T, a lookup of a key made more than T after the latest
\* store for it misses and leaves the key absent, and the invocation goes on
\* to execute inner and return its output; a lookup made less than T after
\* the store hits and finds the stored value.
C13_TimedExpiry ==
  /\ [][IsSome(args.time) =>
          \A t \in Threads :
            (Get(t) /\ Stored(key[t])) =>
              /\ Age(key[t]) > args.time[1] =>
                   /\ ~hit'[t] /\ pc'[t] = "miss"
                   /\ key[t] \notin DOMAIN cache'[1].map
              /\ Age(key[t]) < args.time[1] =>
                   /\ hit'[t] /\ pc'[t] = "hit"
                   /\ result'[t] = last[1][key[t]].value]_vars
  /\ [](IsSome(args.time) =>
          \A t \in Threads :
            /\ pc[t] \in {"lock2", "set", "ret"} => runs[t] = 1
            /\ (outcome[t].kind = "value" /\ ~hit[t]) =>
                 runs[t] = 1 /\ outcome[t].value = own[t])

\* C13 witness: with time = 1, a value was stored at time 0 and the lookup
\* of the next call with that key, made at time 2, missed
C13_Witness ==
  /\ args.time = Some(1) /\ now = 2
  /\ pc[1] = "miss" /\ calls[1][key[1]] = 2
  /\ Stored(key[1]) /\ last[1][key[1]].at = 0

\* C14: a store overwrites whatever entry its key had: an invocation that
\* has just stored finds its own value in the cache, whoever stored before;
\* at any time the entry of a key is the value of the latest store made for
\* it, so after racing invocations for one key have all returned the entry
\* is the value of the store that completed last, and a lookup of the key
\* returns it, as did every hit.
C14_LastWriterWins ==
  /\ \A t \in Threads :
       /\ (pc[t] = "ret" /\ stores[t] = 1) =>
            /\ cache[1].map[key[t]] = StoredValue(expanded.policy, result[t])[1]
            /\ last[1][key[t]].value = cache[1].map[key[t]]
       /\ pc[t] = "hit" => result[t] = last[1][key[t]].value
  /\ \A k \in AllKeys : Stored(k) => LookupNow(k) = {Some(last[1][k].value)}
  /\ \A t, u \in Threads :
       (RaceDone(t, u) /\ stores[t] = 1 /\ stores[u] = 1) =>
         /\ last[1][key[t]].value \in {outcome[t].value, outcome[u].value}
         /\ LookupNow(key[t]) = {Some(last[1][key[t]].value)}

\* C14 witness: two invocations raced for one key and stored different
\* values; the second to store is still at its return, the first is back,
\* and the cache holds the second's value
C14_Witness ==
  \E t, u \in Threads :
    /\ t /= u /\ key[t] = key[u] /\ <<1, key[t]>> \in raced
    /\ stores[t] = 1 /\ stores[u] = 1
    /\ pc[t] = "idle" /\ pc[u] = "ret"
    /\ outcome[t].value /= result[u]
    /\ cache[1].map[key[u]] = result[u]

\* the statics whose lock the invocation t holds
Held(t) == {f \in Fns : mutex[f] = t}
\* no invocation in flight is stuck, nested ones included: while some
\* invocation is inside a wrapper, one of those can take a step or collect
\* the call its body made
NoNestedDeadlock ==
  (\E t \in Threads : pc[t] /= "idle") =>
    \E t \in Threads :
      /\ pc[t] /= "idle"
      /\ \/ ENABLED Step(t)
         \/ \E u \in Threads : ENABLED NestedReturn(t, u) \/ ENABLED NestedPanic(t, u)

\* C15: an invocation holds at most one lock, and only that of its own
\* function's static; it holds none when it asks for a lock, none while its
\* inner runs and none while a call made by its inner's body (to its own
\* wrapper or to another cached function's) is in flight; and such nested
\* calls never leave the invocations stuck.
C15_NoLockAcrossCalls ==
  /\ \A t \in Threads :
       /\ Cardinality(Held(t)) <= 1
       /\ Held(t) \subseteq {fn[t]}
       /\ pc[t] \in {"lock1", "lock2"} => Held(t) = {}
       /\ (pc[t] = "inner" \/ Awaiting(t)) => Held(t) = {}
       /\ caller[t] /= 0 => pc[caller[t]] = "inner" /\ Held(caller[t]) = {}
  /\ NoNestedDeadlock

\* C15 witness: the body of inner called its own wrapper with the same
\* inputs, and the nested invocation holds the lock at its store while the
\* outer one waits in inner
C15_Witness ==
  \E t, u \in Threads :
    /\ caller[u] = t /\ fn[u] = fn[t] /\ key[u] = key[t]
    /\ pc[t] = "inner" /\ pc[u] = "set" /\ mutex[fn[u]] = u

\* C16: an invocation whose lookup missed and that returned a value ran
\* inner once and returned exactly what that execution produced, an output
\* of inner for its own inputs, whether or not the set-cache block stored it
\* and whatever the cache holds for its key by then.
C16_MissReturnsOwnOutput ==
  \A t \in Threads :
    /\ pc[t] \in {"lock2", "set", "ret"} => result[t] = own[t]
    /\ (outcome[t].kind = "value" /\ ~hit[t]) =>
         /\ runs[t] = 1
         /\ outcome[t].value = own[t]
         /\ own[t] \in inner(item, InnerArgs(inputs[t]))

\* C16 witness: an invocation missed, computed an output the set-cache
\* block dropped and returned it, while the cache holds for its key the
\* different value a racing invocation stored
C16_Witness ==
  \E t \in Threads :
    /\ outcome[t].kind = "value" /\ ~hit[t] /\ stores[t] = 0
    /\ outcome[t].value = own[t] /\ ~Storable(own[t])
    /\ <<1, key[t]>> \in raced
    /\ key[t] \in DOMAIN cache[1].map
    /\ cache[1].map[key[t]] /= outcome[t].value

\* C17: under result every value in the cache is an Ok, under option every
\* value is a Some, and with neither the output of every execution of inner
\* that returned is stored, Err and None included: the invocation at its
\* return finds its output under its key, and its key stays in the cache.
C17_StoredVariants ==
  /\ expanded.policy = "OkOnly" =>
       \A k \in DOMAIN cache[1].map : cache[1].map[k].tag = "Ok"
  /\ expanded.policy = "SomeOnly" =>
       \A k \in DOMAIN cache[1].map : cache[1].map[k].tag = "Some"
  /\ expanded.policy = "All" =>
       \A t \in Threads :
         /\ pc[t] = "ret" =>
              /\ stores[t] = 1
              /\ key[t] \in DOMAIN cache[1].map /\ cache[1].map[key[t]] = own[t]
         /\ (outcome[t].kind = "value" /\ ~hit[t]) =>
              stores[t] = 1 /\ key[t] \in DOMAIN cache[1].map

\* C17 witness: under result, inner returned Err and Ok for one key and the
\* cache holds the Ok
C17_Witness ==
  /\ expanded.policy = "OkOnly"
  /\ \E k \in DOMAIN cache[1].map :
       /\ cache[1].map[k].tag = "Ok"
       /\ \E i \in DOMAIN outs[1][k] : outs[1][k][i].tag = "Err"

\* C18: under fair scheduling every invocation ends: a thread waiting for
\* the lock at its lookup gets it, a thread waiting at its store gets it,
\* and every invocation returns a value unless its own inner panicked.
C18_EventuallyReturns ==
  \A t \in Threads :
    /\ (pc[t] = "lock1") ~> (pc[t] = "get")
    /\ (pc[t] = "lock2") ~> (pc[t] = "set")
    /\ (pc[t] /= "idle") ~>
         (pc[t] = "idle" /\ (outcome[t].kind = "value" \/ own[t] = Panicked))

\* C18 witness: a thread waits for the lock at its store while another
\* thread holds it at its lookup
C18_Witness ==
  \E t, u \in Threads :
    /\ t /= u /\ pc[t] = "lock2" /\ ~Acquirable(1)
    /\ pc[u] = "get" /\ mutex[1] = u

\* C19: the key of an invocation is the one derived from its inputs, from
\* the derivation to the return, so the lookup and the store use the same
\* key; every key in the cache is the key of some input, and its value is
\* what an execution of inner made under that key produced, as stored; so
\* with a pure body and the default key every entry (k, v) has v = f(k),
\* in every interleaving.
C19_EntriesUnderOwnKey ==
  /\ \A t \in Threads :
       /\ pc[t] \notin {"idle", "key"} => key[t] = KeyFor(inputs[t])
       /\ (pc[t] = "ret" /\ stores[t] = 1) =>
            /\ key[t] \in DOMAIN cache[1].map
            /\ last[1][key[t]].value = StoredValue(expanded.policy, own[t])[1]
  /\ \A k \in DOMAIN cache[1].map :
       /\ \E x \in load.inputs : k = KeyFor(x)
       /\ \E i \in DOMAIN outs[1][k] :
            StoredValue(expanded.policy, outs[1][k][i]) = Some(cache[1].map[k])
       /\ (item.pure /\ DefaultKey) => cache[1].map[k] = PureBody(item.retTy, k)

\* C19 witness: with a pure body, the default key and every output stored,
\* two threads raced for one key, both stored and returned, and the entry
\* of the key is f of it
C19_Witness ==
  /\ item.pure /\ DefaultKey /\ expanded.policy = "All"
  /\ \E t, u \in Threads :
       /\ RaceDone(t, u) /\ stores[t] = 1 /\ stores[u] = 1
       /\ cache[1].map[key[t]] = PureBody(item.retTy, inputs[t])

\* the attribute asks for the unbounded cache, by unbound or by default
Unbounded == NamedBackend(args).kind = "UnboundCache"
\* the step is the store of an invocation with the key k
StoreFor(k) == \E t \in Threads : Set(t) /\ key[t] = k

\* C20: with the unbounded cache, no step removes an entry; an entry
\* changes or appears only by the store of an invocation with that same
\* key; and the steps of a lookup and of the return of a hit leave the
\* whole mapping as it was.
C20_OtherKeysUntouched ==
  [][Unbounded =>
       /\ \A k \in DOMAIN cache[1].map :
            /\ k \in DOMAIN cache'[1].map
            /\ cache'[1].map[k] /= cache[1].map[k] => StoreFor(k)
       /\ \A k \in DOMAIN cache'[1].map \ DOMAIN cache[1].map : StoreFor(k)
       /\ \A t \in Threads :
            (Get(t) \/ ReturnHit(t)) => cache'[1].map = cache[1].map]_vars

\* C20 witness: an invocation has stored under its key while the cache
\* holds the entry of another key
C20_Witness ==
  /\ Unbounded
  /\ \E t \in Threads :
       /\ pc[t] = "ret" /\ stores[t] = 1
       /\ \E k \in DOMAIN cache[1].map : k /= key[t]
=============================================================================
